---- MODULE Spec2Model ----
(***************************************************************************)
(* anoma-alpha: the parallel transaction scheduler (vm/src/schedule.rs)    *)
(* and the HyParView gossip topic (network/src/topic.rs).                  *)
(*                                                                         *)
(* Submission indices are 1-based here: position i of the batch is the     *)
(* transaction the code enumerates with ix = i - 1.                        *)
(***************************************************************************)
EXTENDS Integers, Sequences, FiniteSets, TLC

\* ------------------------------------------------------------------------
\* Bounds
\* ------------------------------------------------------------------------
NumAddr == 2

MaxTxs == 3

Address == 1..NumAddr

\* ------------------------------------------------------------------------
\* Primitives the scheduler consumes
\* ------------------------------------------------------------------------

\* Address::ancestors: even addresses are children of the odd address below.
Ancestors(a) == IF a % 2 = 0 THEN <<a - 1>> ELSE <<>>

\* Param / Code: ref = TRUE is the AccountRef shape, FALSE a literal / inline.
Lit == [ref |-> FALSE, addr |-> 0]

AccountRef(a) == [ref |-> TRUE, addr |-> a]

NoAccount == [exists |-> FALSE, predicates |-> <<>>, val |-> 0]

\* values held by accounts; execution results are computed modulo ValMod
ValMod == 4

NoChange == 0 - 1

EmptyDiff == [a \in Address |-> NoChange]

\* StateDiff::apply: the later diff is layered on top
Apply(acc, diff) ==
  [a \in Address |-> IF diff[a] # NoChange THEN diff[a] ELSE acc[a]]

\* Overlayed::new(state, &acc_state).get
Overlayed(st, acc, a) == IF acc[a] # NoChange THEN acc[a] ELSE st[a].val

SetSum(f, S) ==
  LET RECURSIVE Sum(_)
      Sum(T) == IF T = {} THEN 0
                ELSE LET x == CHOOSE y \in T : TRUE IN f[x] + Sum(T \ {x})
  IN Sum(S)

\* ------------------------------------------------------------------------
\* TransactionRefs
\* ------------------------------------------------------------------------

\* the closure without the writes.contains test
WalkPredNoFilter(reads, writes, pred) ==
  LET fromParams == {pred.params[i].addr :
                       i \in {k \in DOMAIN pred.params : pred.params[k].ref}}
      fromCode == IF pred.code.ref THEN {pred.code.addr} ELSE {}
  IN reads \cup fromParams \cup fromCode

\* the closure passed to for_each: every AccountRef param and an AccountRef
\* code is inserted into reads unless it is in writes
WalkPred(reads, writes, pred) ==
  LET fromParams == {pred.params[i].addr :
                       i \in {k \in DOMAIN pred.params : pred.params[k].ref}}
      fromCode == IF pred.code.ref THEN {pred.code.addr} ELSE {}
  IN reads \cup {x \in fromParams \cup fromCode : x \notin writes}

RECURSIVE ForEachPred(_, _, _)
ForEachPred(reads, writes, preds) ==
  IF preds = <<>> THEN reads
  ELSE ForEachPred(WalkPred(reads, writes, Head(preds)), writes, Tail(preds))

RECURSIVE WalkAncestors(_, _, _, _)
WalkAncestors(reads, writes, ancs, st) ==
  IF ancs = <<>> THEN reads
  ELSE LET acc == st[Head(ancs)]
           r == IF acc.exists THEN ForEachPred(reads, writes, acc.predicates)
                ELSE reads
       IN WalkAncestors(r, writes, Tail(ancs), st)

RECURSIVE WalkProposals(_, _, _, _)
WalkProposals(reads, writes, todo, st) ==
  IF todo = {} THEN reads
  ELSE LET addr == CHOOSE a \in todo : TRUE
           acc == st[addr]
           r == IF acc.exists
                THEN WalkAncestors(ForEachPred(reads, writes, acc.predicates),
                                   writes, Ancestors(addr), st)
                ELSE reads
       IN WalkProposals(r, writes, todo \ {addr}, st)

RECURSIVE WalkIntents(_, _, _)
WalkIntents(reads, writes, intents) ==
  IF intents = <<>> THEN reads
  ELSE WalkIntents(ForEachPred(reads, writes, Head(intents)), writes,
                   Tail(intents))

TransactionRefsNew(tx, st) ==
  LET writes == DOMAIN tx.proposals
      reads == WalkIntents(WalkProposals({}, writes, writes, st), writes,
                           tx.intents)
  IN [reads |-> reads, writes |-> writes]

DependsOn(self, other) ==
  (\E addr \in self.reads : addr \in other.writes)
  \/ (\E addr \in self.writes : addr \in other.writes)

\* ------------------------------------------------------------------------
\* Execution collaborator: deterministic in the transaction and the values
\* it observes at the addresses of its read and write sets
\* ------------------------------------------------------------------------
Err == [ok |-> FALSE, diff |-> EmptyDiff]

Execute(tx, st, acc) ==
  LET refs == TransactionRefsNew(tx, st)
      touched == refs.reads \cup refs.writes
      view == [a \in Address |-> Overlayed(st, acc, a)]
      v == (SetSum(tx.proposals, refs.writes) + SetSum(view, touched)) % ValMod
  IN IF v = 0 THEN Err
     ELSE [ok |-> TRUE,
           diff |-> [a \in Address |-> IF a \in refs.writes THEN v
                                       ELSE NoChange]]

\* ------------------------------------------------------------------------
\* Schedule::new: the dependency graph
\* ------------------------------------------------------------------------

\* the scan without .rev(): the lowest predecessor of j, among 1..k, that j
\* depends on
ScanFront(refs, j, k) ==
  LET hits == {m \in 1..k : DependsOn(refs[j], refs[m])}
  IN IF hits = {} THEN 0 ELSE CHOOSE m \in hits : \A n \in hits : m <= n

\* 'inner: for (r1, ix1) in refs.iter().rev(): the first predecessor of j,
\* scanning from k downwards, that j depends on; 0 when there is none
RECURSIVE ScanBack(_, _, _)
ScanBack(refs, j, k) ==
  IF k = 0 THEN 0
  ELSE IF DependsOn(refs[j], refs[k]) THEN k
  ELSE ScanBack(refs, j, k - 1)

\* while let Some((r0, ix0)) = refs.pop_back(): edges in insertion order
RECURSIVE BuildEdges(_, _)
BuildEdges(refs, j) ==
  IF j = 0 THEN <<>>
  ELSE LET k == ScanBack(refs, j, j - 1)
       IN (IF k = 0 THEN <<>> ELSE << <<k, j>> >>) \o BuildEdges(refs, j - 1)

RefsOf(txs, st) == [i \in DOMAIN txs |-> TransactionRefsNew(txs[i], st)]

\* graph.neighbors(node): targets of the outgoing edges, newest edge first
RECURSIVE Neighbors(_, _, _)
Neighbors(edges, node, k) ==
  IF k = 0 THEN <<>>
  ELSE (IF edges[k][1] = node THEN <<edges[k][2]>> ELSE <<>>)
       \o Neighbors(edges, node, k - 1)

\* graph.edges_directed(index, Incoming).last(): the oldest incoming edge's
\* source, 0 when there is no incoming edge
IncomingLast(edges, index) ==
  LET inc == {k \in DOMAIN edges : edges[k][2] = index}
  IN IF inc = {} THEN 0
     ELSE edges[CHOOSE k \in inc : \A m \in inc : k <= m][1]

\* UnionFind: union by rank
RECURSIVE Find(_, _)
Find(parent, x) == IF parent[x] = x THEN x ELSE Find(parent, parent[x])

Union(uf, x, y) ==
  LET xrep == Find(uf.parent, x)
      yrep == Find(uf.parent, y)
  IN IF xrep = yrep THEN uf
     ELSE IF uf.rank[xrep] < uf.rank[yrep]
       THEN [uf EXCEPT !.parent[xrep] = yrep]
     ELSE IF uf.rank[xrep] > uf.rank[yrep]
       THEN [uf EXCEPT !.parent[yrep] = xrep]
     ELSE [uf EXCEPT !.parent[yrep] = xrep, !.rank[xrep] = @ + 1]

RECURSIVE UnionAll(_, _, _)
UnionAll(uf, edges, k) ==
  IF k > Len(edges) THEN uf
  ELSE UnionAll(Union(uf, edges[k][1], edges[k][2]), edges, k + 1)

\* ascending sequence of the elements of a set of numbers
RECURSIVE SortSet(_)
SortSet(S) ==
  IF S = {} THEN <<>>
  ELSE LET m == CHOOSE x \in S : \A y \in S : x <= y
       IN <<m>> \o SortSet(S \ {m})

\* labels.sort_unstable() alone: every node's label, ascending, repeats kept
SortOnly(labels) ==
  LET RECURSIVE Ins(_, _)
      Ins(sorted, x) ==
        IF sorted = <<>> THEN <<x>>
        ELSE IF x <= Head(sorted) THEN <<x>> \o sorted
        ELSE <<Head(sorted)>> \o Ins(Tail(sorted), x)
      RECURSIVE Go(_, _)
      Go(acc, k) == IF k > Len(labels) THEN acc
                    ELSE Go(Ins(acc, labels[k]), k + 1)
  IN Go(<<>>, 1)

\* labels.sort_unstable(); labels.dedup()
SortDedup(labels) == SortSet({labels[i] : i \in DOMAIN labels})

\* the label taken as the root, without following the incoming edges
StayAtLabel(edges, index) == index

\* while let Some(up) = edges_directed(index, Incoming).last()
RECURSIVE WalkUp(_, _)
WalkUp(edges, index) ==
  LET up == IncomingLast(edges, index)
  IN IF up = 0 THEN index ELSE WalkUp(edges, up)

Roots(n, edges) ==
  LET uf == UnionAll([parent |-> [i \in 1..n |-> i],
                      rank |-> [i \in 1..n |-> 0]], edges, 1)
      labels == SortDedup([i \in 1..n |-> Find(uf.parent, i)])
  IN [r \in DOMAIN labels |-> WalkUp(edges, labels[r])]

\* ------------------------------------------------------------------------
\* BfsRows
\* ------------------------------------------------------------------------
BfsRowsNew(start) ==
  [stack |-> << <<start, 0>> >>, discovered |-> {start}, row |-> 0]

\* the successors that discovered.visit() reports as new, in visiting order
RECURSIVE VisitNew(_, _)
VisitNew(succs, discovered) ==
  IF succs = <<>> THEN <<>>
  ELSE (IF Head(succs) \in discovered THEN <<>> ELSE <<Head(succs)>>)
       \o VisitNew(Tail(succs), discovered \cup {Head(succs)})

\* the loop without the push_front: a node of a deeper level is dropped
RECURSIVE BfsLoopDropsLookahead(_, _, _, _, _)
BfsLoopDropsLookahead(stack, discovered, row, rownum, edges) ==
  IF stack = <<>> THEN [stack |-> stack, discovered |-> discovered, out |-> row]
  ELSE LET node == Head(stack)[1]
           level == Head(stack)[2]
           fresh == VisitNew(Neighbors(edges, node, Len(edges)), discovered)
           pushed == Tail(stack)
                     \o [i \in DOMAIN fresh |-> <<fresh[i], level + 1>>]
           disc == discovered \cup {fresh[i] : i \in DOMAIN fresh}
       IN IF level = rownum
          THEN BfsLoopDropsLookahead(pushed, disc, Append(row, node), rownum,
                                     edges)
          ELSE [stack |-> pushed, discovered |-> disc, out |-> row]

\* the while loop of BfsRows::next
RECURSIVE BfsLoop(_, _, _, _, _)
BfsLoop(stack, discovered, row, rownum, edges) ==
  IF stack = <<>> THEN [stack |-> stack, discovered |-> discovered, out |-> row]
  ELSE LET node == Head(stack)[1]
           level == Head(stack)[2]
           fresh == VisitNew(Neighbors(edges, node, Len(edges)), discovered)
           pushed == Tail(stack)
                     \o [i \in DOMAIN fresh |-> <<fresh[i], level + 1>>]
           disc == discovered \cup {fresh[i] : i \in DOMAIN fresh}
       IN IF level = rownum
          THEN BfsLoop(pushed, disc, Append(row, node), rownum, edges)
          ELSE [stack |-> << <<node, level>> >> \o pushed,
                discovered |-> disc, out |-> row]

\* BfsRows::next: the iterator afterwards and the row returned
\* (out = <<>> stands for None)
BfsNext(bfs, edges) ==
  LET r == BfsLoop(bfs.stack, bfs.discovered, <<>>, bfs.row, edges)
  IN [iter |-> [stack |-> r.stack, discovered |-> r.discovered,
                row |-> bfs.row + 1],
      out |-> r.out]

\* ------------------------------------------------------------------------
\* Scheduler state
\* ------------------------------------------------------------------------
VARIABLES
  state,    \* the base State handed to execute_many
  txs,      \* the batch, in submission order
  pc,       \* "new", "run", "done", or "panic" after a failed expect
  slot,     \* graph node weights: TRUE while the node still holds its tx
  refs,     \* the TransactionRefs Schedule::new computed, one per node
  edges,    \* graph edges <<source, target>> in insertion order
  roots,    \* Schedule.roots
  trees,    \* one worker per Tree: iterator, acc_state, current row, txs
  out,      \* the vector execute_many returns
  hist,     \* history: per transaction, how often it ran and what it saw
  prev,     \* what an earlier call on the unswapped batch returned
  swap      \* the two positions exchanged for the second call

\* Topic state (TopicInner)
VARIABLES
  config,          \* network_config: min/max active and max passive sizes
  this_node,       \* this_node.addresses
  active_peers,
  passive_peers,
  pending_dials,
  cmds,            \* commands the call being served has sent on cmdtx
  outmsgs,         \* payloads sent to the subscriber channel
  panicked,        \* a handler hit todo!()
  event,           \* the call being served: an injected Event or gossip()
  gossip_seen      \* history: <<id, payload>> of the Gossip messages received

schedVars == <<state, txs, pc, slot, refs, edges, roots, trees, out, hist,
               prev, swap>>

topicVars == <<config, this_node, active_peers, passive_peers, pending_dials,
               cmds, outmsgs, panicked, event, gossip_seen>>

vars == <<schedVars, topicVars>>

\* ------------------------------------------------------------------------
\* Inputs of the scheduler
\* ------------------------------------------------------------------------
LitPred == [params |-> <<Lit>>, code |-> Lit]

ReadPred(r) == [params |-> <<AccountRef(r)>>, code |-> Lit]

BaseVal(a) == IF a % 2 = 1 THEN 3 ELSE 1

BaseState ==
  [a \in Address |-> [exists |-> TRUE, predicates |-> <<LitPred>>,
                      val |-> BaseVal(a)]]

\* one proposal per transaction, at most one other account read through an
\* intent's expectations
SchedTxs ==
  UNION {{[proposals |-> [a \in {w} |-> 1], intents |-> i] :
            i \in {<<>>} \cup {<< <<ReadPred(r)>> >> : r \in Address \ {w}}} :
         w \in Address}

Batches == UNION {[1..n -> SchedTxs] : n \in 0..MaxTxs}

NewTree(root) ==
  [root |-> root, iter |-> BfsRowsNew(root), acc_state |-> EmptyDiff,
   row |-> <<>>, results |-> <<>>, executed |-> {}, txs |-> <<>>,
   applied |-> {}, finished |-> FALSE]

NoHist == [runs |-> 0, result |-> Err, saw |-> {}]

TopicIdle ==
  /\ config = [min_active |-> 0, max_active |-> 0, max_passive |-> 0]
  /\ this_node = {}
  /\ active_peers = <<>>
  /\ passive_peers = <<>>
  /\ pending_dials = {}
  /\ cmds = <<>>
  /\ outmsgs = <<>>
  /\ panicked = FALSE
  /\ event = [type |-> "none", peer |-> 0, addrs |-> {}, graceful |-> FALSE,
              id |-> 0, action |-> "", data |-> ""]
  /\ gossip_seen = {}

InitSched ==
  /\ state = BaseState
  /\ txs \in Batches
  /\ pc = "new"
  /\ slot = [i \in DOMAIN txs |-> TRUE]
  /\ refs = <<>>
  /\ edges = <<>>
  /\ roots = <<>>
  /\ trees = <<>>
  /\ out = <<>>
  /\ hist = [i \in DOMAIN txs |-> NoHist]
  /\ prev = <<>>
  /\ swap = <<0, 0>>
  /\ TopicIdle

\* ------------------------------------------------------------------------
\* Scheduler operations
\* ------------------------------------------------------------------------

\* Schedule::new followed by the dispatch of Schedule::trees in Schedule::run
ScheduleNew ==
  /\ pc = "new"
  /\ LET rf == RefsOf(txs, state)
         g == BuildEdges(rf, Len(txs))
         rs == Roots(Len(txs), g)
     IN /\ refs' = rf
        /\ edges' = g
        /\ roots' = rs
        /\ trees' = [r \in DOMAIN rs |-> NewTree(rs[r])]
  /\ pc' = "run"
  /\ UNCHANGED <<state, txs, slot, out, hist, prev, swap, topicVars>>

\* a fold that gives up on the tree at the first Err of a row
RECURSIVE FoldAbortOnErr(_, _)
FoldAbortOnErr(tr, k) ==
  IF k > Len(tr.row) THEN tr
  ELSE LET res == tr.results[k]
           ix == tr.row[k]
       IN IF ~res.ok
          THEN [tr EXCEPT !.txs = Append(@, <<res, ix>>), !.iter.stack = <<>>]
          ELSE FoldAbortOnErr(
                 [tr EXCEPT !.acc_state = Apply(@, res.diff),
                            !.applied = @ \cup {ix},
                            !.txs = Append(@, <<res, ix>>)],
                 k + 1)

\* a fold that pushes the pairs and never applies a diff
RECURSIVE FoldNoApply(_, _)
FoldNoApply(tr, k) ==
  IF k > Len(tr.row) THEN tr
  ELSE FoldNoApply([tr EXCEPT !.txs = Append(@, <<tr.results[k], tr.row[k]>>)],
                   k + 1)

\* for (result, ix) in results: apply the diff of an Ok result, push the pair
RECURSIVE FoldResults(_, _)
FoldResults(tr, k) ==
  IF k > Len(tr.row) THEN tr
  ELSE LET res == tr.results[k]
           ix == tr.row[k]
       IN FoldResults(
            [tr EXCEPT
               !.acc_state = IF res.ok THEN Apply(@, res.diff) ELSE @,
               !.applied = IF res.ok THEN @ \cup {ix} ELSE @,
               !.txs = Append(@, <<res, ix>>)],
            k + 1)

\* node_weight(tx).borrow_mut().take().expect(..) over the row, in order
RECURSIVE TakeRow(_, _, _)
TakeRow(slots, row, k) ==
  IF k > Len(row) THEN [slot |-> slots, ok |-> TRUE]
  ELSE IF ~slots[row[k]] THEN [slot |-> slots, ok |-> FALSE]
  ELSE TakeRow([slots EXCEPT ![row[k]] = FALSE], row, k + 1)

\* one turn of the while loop of Tree::run between two parallel sections:
\* fold the results of the row just executed, then fetch and take the next
TreeAdvance(t) ==
  /\ pc = "run"
  /\ t \in DOMAIN trees
  /\ ~trees[t].finished
  /\ trees[t].executed = DOMAIN trees[t].row
  /\ LET folded == FoldResults(trees[t], 1)
         nx == BfsNext(folded.iter, edges)
         taken == TakeRow(slot, nx.out, 1)
     IN /\ slot' = taken.slot
        /\ pc' = IF taken.ok THEN pc ELSE "panic"
        /\ trees' = [trees EXCEPT ![t] =
                       [folded EXCEPT
                          !.iter = nx.iter,
                          !.row = nx.out,
                          !.results = [k \in DOMAIN nx.out |-> Err],
                          !.executed = {},
                          !.finished = (nx.out = <<>>)]]
  /\ UNCHANGED <<state, txs, refs, edges, roots, out, hist, prev, swap,
                 topicVars>>

\* a worker that folds its own diff into acc_state as soon as it has it
ExecuteTxEager(t, k) ==
  /\ pc = "run"
  /\ t \in DOMAIN trees
  /\ k \in DOMAIN trees[t].row
  /\ k \notin trees[t].executed
  /\ LET ix == trees[t].row[k]
         res == Execute(txs[ix], state, trees[t].acc_state)
     IN /\ trees' = [trees EXCEPT
                       ![t].results[k] = res,
                       ![t].executed = @ \cup {k},
                       ![t].acc_state = IF res.ok THEN Apply(@, res.diff) ELSE @,
                       ![t].applied = IF res.ok THEN @ \cup {ix} ELSE @]
        /\ hist' = [hist EXCEPT ![ix] = [runs |-> @.runs + 1,
                                         result |-> res,
                                         saw |-> trees[t].applied]]
  /\ UNCHANGED <<state, txs, pc, slot, refs, edges, roots, out, prev, swap,
                 topicVars>>

\* one worker of row_txs.into_par_iter(): execute(tx, &state, cache)
ExecuteTx(t, k) ==
  /\ pc = "run"
  /\ t \in DOMAIN trees
  /\ k \in DOMAIN trees[t].row
  /\ k \notin trees[t].executed
  /\ LET ix == trees[t].row[k]
         res == Execute(txs[ix], state, trees[t].acc_state)
     IN /\ trees' = [trees EXCEPT ![t].results[k] = res,
                                  ![t].executed = @ \cup {k}]
        /\ hist' = [hist EXCEPT ![ix] = [runs |-> @.runs + 1,
                                         result |-> res,
                                         saw |-> trees[t].applied]]
  /\ UNCHANGED <<state, txs, pc, slot, refs, edges, roots, out, prev, swap,
                 topicVars>>

\* .flatten(): the pairs of all trees, in the order of the trees
RECURSIVE Flatten(_, _)
Flatten(ts, t) ==
  IF t > Len(ts) THEN <<>> ELSE ts[t].txs \o Flatten(ts, t + 1)

\* the pairs left in the order the trees produced them
Unsorted(pairs) == pairs

\* trees.sort_by(|(_, ix1), (_, ix2)| ix1.cmp(ix2)): a stable sort
SortByIx(pairs) ==
  LET RECURSIVE Ins(_, _)
      Ins(sorted, x) ==
        IF sorted = <<>> THEN <<x>>
        ELSE IF x[2] < Head(sorted)[2] THEN <<x>> \o sorted
        ELSE <<Head(sorted)>> \o Ins(Tail(sorted), x)
      RECURSIVE Go(_, _)
      Go(acc, k) == IF k > Len(pairs) THEN acc
                    ELSE Go(Ins(acc, pairs[k]), k + 1)
  IN Go(<<>>, 1)

\* the end of Schedule::run and the collect() of execute_many
Collect ==
  /\ pc = "run"
  /\ \A t \in DOMAIN trees : trees[t].finished
  /\ LET sorted == SortByIx(Flatten(trees, 1))
     IN out' = [i \in DOMAIN sorted |-> sorted[i][1]]
  /\ pc' = "done"
  /\ UNCHANGED <<state, txs, slot, refs, edges, roots, trees, hist, prev,
                 swap, topicVars>>

\* a run that hands out its iterator while trees are still at work, and a
\* caller dropping it then
DropWhileRunning ==
  /\ pc = "run"
  /\ pc' = "dropped"
  /\ UNCHANGED <<state, txs, slot, refs, edges, roots, trees, out, hist, prev,
                 swap, topicVars>>

\* the caller drops the iterator Schedule::run returned instead of consuming
\* it: run returns only after the parallel collect() of every tree and the
\* sort, so the pairs exist and are discarded
Drop ==
  /\ pc = "run"
  /\ \A t \in DOMAIN trees : trees[t].finished
  /\ pc' = "dropped"
  /\ UNCHANGED <<state, txs, slot, refs, edges, roots, trees, out, hist, prev,
                 swap, topicVars>>

SwapAt(seq, i, j) ==
  [k \in DOMAIN seq |-> IF k = i THEN seq[j] ELSE IF k = j THEN seq[i]
                        ELSE seq[k]]

\* neither transaction writes an address the other reads or writes
Independent(r0, r1) == ~DependsOn(r0, r1) /\ ~DependsOn(r1, r0)

\* a second call of execute_many, on the same state, with the batch in which
\* two independent transactions have exchanged their positions
Resubmit(i, j) ==
  /\ pc = "done"
  /\ swap = <<0, 0>>
  /\ i \in DOMAIN txs /\ j \in DOMAIN txs /\ i < j
  /\ Independent(TransactionRefsNew(txs[i], state),
                 TransactionRefsNew(txs[j], state))
  /\ txs' = SwapAt(txs, i, j)
  /\ prev' = out
  /\ swap' = <<i, j>>
  /\ pc' = "new"
  /\ slot' = [k \in DOMAIN txs |-> TRUE]
  /\ refs' = <<>>
  /\ edges' = <<>>
  /\ roots' = <<>>
  /\ trees' = <<>>
  /\ out' = <<>>
  /\ hist' = [k \in DOMAIN txs |-> NoHist]
  /\ UNCHANGED <<state, topicVars>>

\* batches for Schedule::new alone: a transaction may also have no proposal
GraphTxs ==
  SchedTxs
  \cup {[proposals |-> <<>>, intents |-> i] :
          i \in {<<>>} \cup {<< <<ReadPred(r)>> >> : r \in Address}}

GraphBatches == UNION {[1..n -> GraphTxs] : n \in 0..MaxTxs}

InitGraph ==
  /\ state = BaseState
  /\ txs \in GraphBatches
  /\ pc = "new"
  /\ slot = [i \in DOMAIN txs |-> TRUE]
  /\ refs = <<>>
  /\ edges = <<>>
  /\ roots = <<>>
  /\ trees = <<>>
  /\ out = <<>>
  /\ hist = [i \in DOMAIN txs |-> NoHist]
  /\ prev = <<>>
  /\ swap = <<0, 0>>
  /\ TopicIdle

\* Schedule::new on its own
NextGraph == ScheduleNew

SpecGraph == InitGraph /\ [][NextGraph]_vars

\* inputs for TransactionRefs::new alone: accounts that are missing or whose
\* predicate refers to an account through a param or through its code, and
\* transactions with any set of proposals and at most one intent
CodePred(r) == [params |-> <<Lit>>, code |-> AccountRef(r)]

RefPreds ==
  {LitPred} \cup {ReadPred(r) : r \in Address} \cup {CodePred(r) : r \in Address}

RefAccounts(a) ==
  {NoAccount}
  \cup {[exists |-> TRUE, predicates |-> <<p>>, val |-> BaseVal(a)] :
          p \in RefPreds}

RefStates ==
  {st \in [Address -> UNION {RefAccounts(a) : a \in Address}] :
     \A a \in Address : st[a] \in RefAccounts(a)}

RefTxs ==
  {[proposals |-> [a \in w |-> 1], intents |-> i] :
     w \in SUBSET Address,
     i \in {<<>>} \cup {<< <<p>> >> : p \in RefPreds \ {LitPred}}}

InitRefs ==
  /\ state \in RefStates
  /\ txs \in [1..1 -> RefTxs]
  /\ pc = "new"
  /\ slot = [i \in DOMAIN txs |-> TRUE]
  /\ refs = <<>>
  /\ edges = <<>>
  /\ roots = <<>>
  /\ trees = <<>>
  /\ out = <<>>
  /\ hist = [i \in DOMAIN txs |-> NoHist]
  /\ prev = <<>>
  /\ swap = <<0, 0>>
  /\ TopicIdle

\* TransactionRefs::new as Schedule::new calls it
NextRefs == ScheduleNew

SpecRefs == InitRefs /\ [][NextRefs]_vars

\* Schedule::run with a caller that consumes the iterator or drops it
NextDrop ==
  \/ ScheduleNew
  \/ \E t \in 1..MaxTxs : TreeAdvance(t)
  \/ \E t \in 1..MaxTxs : \E k \in 1..MaxTxs : ExecuteTx(t, k)
  \/ Collect
  \/ Drop

SpecDrop == InitSched /\ [][NextDrop]_vars

\* one call of execute_many
NextSched ==
  \/ ScheduleNew
  \/ \E t \in 1..MaxTxs : TreeAdvance(t)
  \/ \E t \in 1..MaxTxs : \E k \in 1..MaxTxs : ExecuteTx(t, k)
  \/ Collect

SpecSched == InitSched /\ [][NextSched]_vars

\* a call of execute_many and a second one on the reordered batch
NextSwap ==
  \/ ScheduleNew
  \/ \E t \in 1..MaxTxs : TreeAdvance(t)
  \/ \E t \in 1..MaxTxs : \E k \in 1..MaxTxs : ExecuteTx(t, k)
  \/ Collect
  \/ \E i \in 1..MaxTxs : \E j \in 1..MaxTxs : Resubmit(i, j)

SpecSwap == InitSched /\ [][NextSwap]_vars

\* ------------------------------------------------------------------------
\* Scheduler properties
\* ------------------------------------------------------------------------
Refs(i) == TransactionRefsNew(txs[i], state)

\* the tree whose worker executed transaction i
TreeOf(i) == CHOOSE t \in DOMAIN trees : \E k \in DOMAIN trees[t].txs :
                                           trees[t].txs[k][2] = i

\* C1: whenever a later transaction depends on an earlier one and both
\* succeed, the accumulated diff the later one was executed against had the
\* earlier one's diff folded in.
C1_DependentSeesDiff ==
  pc = "done" =>
    \A i \in DOMAIN txs : \A j \in DOMAIN txs :
      (i < j /\ DependsOn(Refs(j), Refs(i)) /\ out[i].ok /\ out[j].ok)
        => i \in hist[j].saw

\* C2: execute_many returns one result per submitted transaction, and
\* position i holds the result that executing transaction i produced.
C2_ResultsInSubmissionOrder ==
  pc = "done" =>
    /\ Len(out) = Len(txs)
    /\ \A i \in DOMAIN txs : hist[i].runs > 0 /\ out[i] = hist[i].result

C2_Witness ==
  /\ pc = "done"
  /\ Len(out) >= 3
  /\ Len(roots) >= 2
  /\ \E k \in DOMAIN out : Flatten(trees, 1)[k][2] # k
  /\ \E i \in DOMAIN out : \E j \in DOMAIN out : out[i] # out[j]

\* C3: no take() ever finds an empty slot, no transaction runs twice, and
\* when the run is over every transaction ran once and every slot is empty.
C3_ExecutedExactlyOnce ==
  /\ pc # "panic"
  /\ \A i \in DOMAIN txs : hist[i].runs <= 1
  /\ \A i \in DOMAIN txs : hist[i].runs = 1 => ~slot[i]
  /\ pc = "done" => \A i \in DOMAIN txs : hist[i].runs = 1 /\ ~slot[i]

C3_Witness ==
  /\ pc = "done"
  /\ Len(txs) >= 3
  /\ Len(roots) >= 2
  /\ edges # <<>>
  /\ \A i \in DOMAIN txs : hist[i].runs = 1 /\ ~slot[i]

\* the batch executed one transaction at a time in submission order, each on
\* the base state overlaid with the diffs of the earlier successful ones
RECURSIVE Sequential(_, _, _, _)
Sequential(batch, st, acc, k) ==
  IF k > Len(batch) THEN <<>>
  ELSE LET r == Execute(batch[k], st, acc)
       IN <<r>> \o Sequential(batch, st,
                              IF r.ok THEN Apply(acc, r.diff) ELSE acc, k + 1)

\* C4: the results returned equal those of the one-at-a-time execution in
\* submission order.
C4_EqualsSequential ==
  pc = "done" => out = Sequential(txs, state, EmptyDiff, 1)

\* C5: a failed transaction is never folded into an accumulated diff and is
\* never part of what another transaction saw; every transaction still runs,
\* and the error is returned at the failed transaction's own position.
C5_ErrorsAreIsolated ==
  /\ \A i \in DOMAIN txs :
       (hist[i].runs > 0 /\ ~hist[i].result.ok) =>
         /\ \A t \in DOMAIN trees : i \notin trees[t].applied
         /\ \A j \in DOMAIN txs : i \notin hist[j].saw
  /\ pc = "done" =>
       /\ Len(out) = Len(txs)
       /\ \A i \in DOMAIN txs : hist[i].runs = 1
       /\ \A i \in DOMAIN txs : ~hist[i].result.ok => out[i] = Err

C5_Witness ==
  /\ pc = "done"
  /\ \E i \in DOMAIN txs : \E j \in DOMAIN txs : \E m \in DOMAIN txs :
       /\ ~out[i].ok
       /\ TreeOf(j) = TreeOf(i) /\ <<i, j>> \in {edges[e] : e \in DOMAIN edges}
       /\ out[j].ok /\ hist[j].runs = 1
       /\ TreeOf(m) # TreeOf(i) /\ hist[m].runs = 1

\* C6: when two independent transactions submitted one right after the other
\* exchange their positions, every transaction of the batch gets the result
\* it got before, whatever the interleaving of the workers.
C6_IndependentCommute ==
  (pc = "done" /\ swap # <<0, 0>> /\ swap[2] = swap[1] + 1)
    => out = SwapAt(prev, swap[1], swap[2])

EdgeSet == {edges[e] : e \in DOMAIN edges}

\* reads_j or writes_j intersects writes_k
Conflicts(j, k) ==
  (refs[j].reads \cup refs[j].writes) \cap refs[k].writes # {}

\* C12: the graph has the edge k -> j exactly when k is the largest index
\* below j that j conflicts with; no edge is recorded twice, every node has
\* at most one incoming edge and every edge goes from a lower to a higher
\* index, so two transactions that only read a common address get no edge.
C12_EdgeFromNearestConflict ==
  pc = "run" =>
    /\ EdgeSet = {p \in (DOMAIN txs) \X (DOMAIN txs) :
                    /\ p[1] < p[2]
                    /\ Conflicts(p[2], p[1])
                    /\ \A m \in (p[1] + 1)..(p[2] - 1) : ~Conflicts(p[2], m)}
    /\ Len(edges) = Cardinality(EdgeSet)
    /\ \A j \in DOMAIN txs :
         Cardinality({e \in DOMAIN edges : edges[e][2] = j}) <= 1
    /\ \A e \in DOMAIN edges : edges[e][1] < edges[e][2]

C12_Witness ==
  /\ pc = "run"
  /\ \E i \in DOMAIN txs : \E j \in DOMAIN txs :
       /\ i < j
       /\ refs[i].reads \cap refs[j].reads # {}
       /\ ~Conflicts(j, i)
       /\ <<i, j>> \notin EdgeSet
  /\ \E p \in EdgeSet : p[1] + 1 < p[2]

\* the nodes reachable from r along directed edges, r included
Reachable(r) ==
  LET RECURSIVE Grow(_)
      Grow(S) == LET nx == S \cup {p[2] : p \in {q \in EdgeSet : q[1] \in S}}
                 IN IF nx = S THEN S ELSE Grow(nx)
  IN Grow({r})

\* C13: an address written by a transaction of one tree is neither read nor
\* written by a transaction of another tree.
C13_TreesTouchDisjointAddresses ==
  pc = "run" =>
    \A t \in DOMAIN roots : \A u \in DOMAIN roots :
      t # u =>
        \A i \in Reachable(roots[t]) : \A j \in Reachable(roots[u]) :
          refs[i].writes \cap (refs[j].reads \cup refs[j].writes) = {}

\* C14: for every edge k -> j, when j is executed k has been executed, and
\* the accumulated diff j was executed against holds k's diff exactly when k
\* succeeded; j is executed whether k succeeded or failed.
C14_EdgeOrdersExecution ==
  \A p \in EdgeSet :
    /\ hist[p[2]].runs > 0 =>
         /\ hist[p[1]].runs > 0
         /\ hist[p[1]].result.ok <=> p[1] \in hist[p[2]].saw
    /\ pc = "done" => hist[p[2]].runs = 1

C14_Witness ==
  /\ pc = "done"
  /\ \E p \in EdgeSet : \E q \in EdgeSet :
       /\ ~hist[p[1]].result.ok
       /\ hist[p[2]].runs = 1
       /\ p[1] \notin hist[p[2]].saw
       /\ hist[q[1]].result.ok
       /\ hist[q[2]].result.ok
       /\ q[1] \in hist[q[2]].saw

\* the source of the edge into j, 0 for a node without one
ParentOf(j) ==
  IF \E p \in EdgeSet : p[2] = j
  THEN (CHOOSE p \in EdgeSet : p[2] = j)[1]
  ELSE 0

RECURSIVE DepthOf(_)
DepthOf(j) == IF ParentOf(j) = 0 THEN 0 ELSE 1 + DepthOf(ParentOf(j))

RECURSIVE TopOf(_)
TopOf(j) == IF ParentOf(j) = 0 THEN j ELSE TopOf(ParentOf(j))

\* C15: every transaction is executed against the diffs of exactly the
\* successful transactions of the earlier rows of its own tree, so those of
\* one row see the same overlay and none sees its own row or another tree;
\* and the accumulated diff of a tree does not change while a transaction of
\* its current row is still to finish.
C15_RowSharesOverlay ==
  /\ [](LET top == [i \in DOMAIN hist |-> TopOf(i)]
            depth == [i \in DOMAIN hist |-> DepthOf(i)]
        IN \A j \in DOMAIN hist :
             hist[j].runs > 0 =>
               hist[j].saw = {i \in DOMAIN hist :
                                /\ top[i] = top[j]
                                /\ depth[i] < depth[j]
                                /\ hist[i].runs > 0
                                /\ hist[i].result.ok})
  /\ [][\A t \in DOMAIN trees :
          trees[t].executed # DOMAIN trees[t].row
            => trees'[t].acc_state = trees[t].acc_state]_vars

C15_Witness ==
  /\ pc = "done"
  /\ \E i \in DOMAIN txs : \E j \in DOMAIN txs :
       /\ i # j
       /\ TopOf(i) = TopOf(j)
       /\ DepthOf(i) = 1 /\ DepthOf(j) = 1
       /\ hist[i].result.ok /\ hist[j].result.ok
       /\ hist[i].saw = {TopOf(i)}
       /\ hist[j].saw = {TopOf(i)}

\* the nodes at directed breadth-first depth d from r
RECURSIVE LevelAt(_, _)
LevelAt(r, d) ==
  IF d = 0 THEN {r}
  ELSE LET before == UNION {LevelAt(r, e) : e \in 0..(d - 1)}
           last == LevelAt(r, d - 1)
       IN {p[2] : p \in {q \in EdgeSet : q[1] \in last}} \ before

\* C16: the k-th call of next returns exactly the nodes at depth k-1 from
\* the root, each once; it returns None exactly when that level is empty,
\* which is the first call after the deepest row; and the rows returned hold
\* every node reachable from the root exactly once.
C16_RowsAreBfsLevels ==
  \A t \in DOMAIN trees :
    LET tr == trees[t]
        n == tr.iter.row
    IN n >= 1 =>
         /\ {tr.row[k] : k \in DOMAIN tr.row} = LevelAt(tr.root, n - 1)
         /\ Len(tr.row) = Cardinality(LevelAt(tr.root, n - 1))
         /\ tr.finished <=> LevelAt(tr.root, n - 1) = {}
         /\ \A d \in 0..(n - 2) : LevelAt(tr.root, d) # {}
         /\ tr.finished =>
              /\ {tr.txs[k][2] : k \in DOMAIN tr.txs} = Reachable(tr.root)
              /\ Len(tr.txs) = Cardinality(Reachable(tr.root))

C16_Witness ==
  \E t \in DOMAIN trees :
    /\ trees[t].finished
    /\ trees[t].iter.row = 4
    /\ Len(trees[t].txs) = 3
    /\ LevelAt(trees[t].root, 2) # {}

\* the weakly connected component of node i
Component(i) ==
  LET RECURSIVE Grow(_)
      Grow(S) ==
        LET nx == S \cup {p[2] : p \in {q \in EdgeSet : q[1] \in S}}
                    \cup {p[1] : p \in {q \in EdgeSet : q[2] \in S}}
        IN IF nx = S THEN S ELSE Grow(nx)
  IN Grow({i})

\* C17: Schedule::roots returns one node per weakly connected component of
\* the graph; the node has no incoming edge and reaches every node of its
\* component along directed edges.
C17_OneRootPerComponent ==
  pc = "run" =>
    /\ Len(roots) = Cardinality({Component(i) : i \in DOMAIN txs})
    /\ \A i \in DOMAIN txs :
         Cardinality({r \in DOMAIN roots : roots[r] \in Component(i)}) = 1
    /\ \A r \in DOMAIN roots :
         /\ roots[r] \in DOMAIN txs
         /\ ~\E p \in EdgeSet : p[2] = roots[r]
         /\ Reachable(roots[r]) = Component(roots[r])

C17_Witness ==
  /\ pc = "run"
  /\ Len(txs) = 3
  /\ Len(roots) = 2
  /\ \E r \in DOMAIN roots : Cardinality(Reachable(roots[r])) = 2
  /\ \E i \in DOMAIN txs : refs[i].writes = {}

\* the addresses a sequence of predicates refers to, by param or by code
RefsIn(preds) ==
  UNION {{preds[n].params[m].addr :
            m \in {k \in DOMAIN preds[n].params : preds[n].params[k].ref}}
         \cup (IF preds[n].code.ref THEN {preds[n].code.addr} ELSE {}) :
         n \in DOMAIN preds}

AccountRefs(st, a) == IF st[a].exists THEN RefsIn(st[a].predicates) ELSE {}

\* what the predicates of the proposals' accounts, of their ancestors found
\* in the state, and of the intents refer to, less the proposals' addresses
ReferencedReads(tx, st) ==
  (UNION {AccountRefs(st, a)
          \cup UNION {AccountRefs(st, Ancestors(a)[n]) :
                        n \in DOMAIN Ancestors(a)} :
          a \in DOMAIN tx.proposals}
   \cup UNION {RefsIn(tx.intents[n]) : n \in DOMAIN tx.intents})
  \ DOMAIN tx.proposals

\* C18: for every proposal address, with or without an account of its own,
\* reads holds every address outside writes that a predicate of its account,
\* of an ancestor's account found in the state, or of an intent refers to,
\* and nothing else.
C18_ReadsAreReferencedAccounts ==
  pc = "run" =>
    \A i \in DOMAIN txs : refs[i].reads = ReferencedReads(txs[i], state)

\* C19: writes is the set of the proposals' addresses and reads shares no
\* address with it.
C19_WritesAreProposalsReadsDisjoint ==
  pc = "run" =>
    \A i \in DOMAIN txs :
      /\ refs[i].writes = DOMAIN txs[i].proposals
      /\ refs[i].reads \cap refs[i].writes = {}

C19_Witness ==
  /\ pc = "run"
  /\ \E i \in DOMAIN txs :
       /\ refs[i].reads # {}
       /\ \E a \in refs[i].writes :
            /\ state[a].exists
            /\ RefsIn(state[a].predicates) \cap refs[i].writes # {}
       /\ \E n \in DOMAIN txs[i].intents :
            RefsIn(txs[i].intents[n]) \cap refs[i].writes # {}

NumPeers == 2

NumMultiaddr == 2

NumIds == 2

MaxBootstrap == 2

MaxViewSize == 1

MaxOut == 2

PeerId == 1..NumPeers

Multiaddr == 1..NumMultiaddr

MessageId == 1..NumIds

\* payloads are opaque to the topic: one value stands for all of them
Bytes == {"payload"}

NoBytes == ""

\* the addresses the network layer discovers for the local node
LocalAddrs == {1}

TopicName == "topic"

ActionKinds == {"Join", "ForwardJoin", "Neighbor", "Shuffle", "ShuffleReply",
                "Disconnect", "Gossip"}

\* wire::Message; data is the payload of a Gossip action
Messages ==
  {[id |-> 1, action |-> a, data |-> NoBytes] : a \in ActionKinds \ {"Gossip"}}
  \cup {[id |-> i, action |-> "Gossip", data |-> d] :
          i \in MessageId, d \in Bytes}

\* network::Command
Connect(addr) ==
  [cmd |-> "Connect", addr |-> addr, topic |-> TopicName, peer |-> 0,
   id |-> 0, action |-> "", data |-> NoBytes, node |-> {}]

SendMessage(peer, id, action, data, node) ==
  [cmd |-> "SendMessage", addr |-> 0, topic |-> TopicName, peer |-> peer,
   id |-> id, action |-> action, data |-> data, node |-> node]

Configs ==
  {[min_active |-> a, max_active |-> MaxViewSize,
    max_passive |-> MaxViewSize] : a \in 0..1}

Bootstraps == UNION {[1..n -> Multiaddr] : n \in 0..MaxBootstrap}

EventOf(type, peer, addrs, graceful, msg) ==
  [type |-> type, peer |-> peer, addrs |-> addrs, graceful |-> graceful,
   id |-> msg.id, action |-> msg.action, data |-> msg.data]

NoMsg == [id |-> 0, action |-> "", data |-> NoBytes]

Range(seq) == {seq[i] : i \in DOMAIN seq}

\* the orders in which a hash set or the keys of a hash map may be iterated
Orders(S) == {f \in [1..Cardinality(S) -> S] : Range(f) = S}

Without(map, key) == [q \in DOMAIN map \ {key} |-> map[q]]

SchedIdle ==
  /\ state = BaseState
  /\ txs = <<>>
  /\ pc = "idle"
  /\ slot = <<>>
  /\ refs = <<>>
  /\ edges = <<>>
  /\ roots = <<>>
  /\ trees = <<>>
  /\ out = <<>>
  /\ hist = <<>>
  /\ prev = <<>>
  /\ swap = <<0, 0>>

\* Topic::new: every bootstrap address is dialed and pending, the views empty
InitTopic ==
  /\ config \in Configs
  /\ this_node = {}
  /\ active_peers = [q \in {} |-> {}]
  /\ passive_peers = [q \in {} |-> {}]
  /\ \E bootstrap \in Bootstraps :
       /\ cmds = [k \in DOMAIN bootstrap |-> Connect(bootstrap[k])]
       /\ pending_dials = Range(bootstrap)
  /\ outmsgs = <<>>
  /\ panicked = FALSE
  /\ event = EventOf("new", 0, {}, FALSE, NoMsg)
  /\ gossip_seen = {}
  /\ SchedIdle

\* ------------------------------------------------------------------------
\* Topic: helpers and handlers.  Every handler says what it sends (cmds')
\* ------------------------------------------------------------------------
IsActive(peer) == peer \in DOMAIN active_peers

Starved == Cardinality(DOMAIN active_peers) < config.min_active

Overconnected == ~Starved

HandleNewLocalAddress(addr) ==
  /\ this_node' = this_node \cup {addr}
  /\ cmds' = <<>>
  /\ UNCHANGED <<active_peers, passive_peers, pending_dials, outmsgs,
                 panicked>>

\* the handler without the starved() test
JoinWithoutStarvedTest(peer, addrs) ==
  LET hits == addrs \cap pending_dials
  IN /\ pending_dials' = pending_dials \ addrs
     /\ \E ids \in [1..Cardinality(hits) -> MessageId] :
          cmds' = [k \in DOMAIN ids |->
                     SendMessage(peer, ids[k], "Join", NoBytes, this_node)]
     /\ UNCHANGED <<this_node, active_peers, passive_peers, outmsgs, panicked>>

\* one Join per address of the peer that pending_dials.remove() finds, each
\* with an id of its own
HandlePeerConnected(peer, addrs) ==
  IF Starved
  THEN LET hits == addrs \cap pending_dials
       IN /\ pending_dials' = pending_dials \ addrs
          /\ \E ids \in [1..Cardinality(hits) -> MessageId] :
               cmds' = [k \in DOMAIN ids |->
                          SendMessage(peer, ids[k], "Join", NoBytes,
                                      this_node)]
          /\ UNCHANGED <<this_node, active_peers, passive_peers, outmsgs,
                         panicked>>
  ELSE /\ cmds' = <<>>
       /\ UNCHANGED <<this_node, active_peers, passive_peers, pending_dials,
                      outmsgs, panicked>>

\* insert, then evict one uniformly chosen entry when over the limit
InsertPassive(peer, addrs) ==
  LET inserted == [q \in DOMAIN passive_peers \cup {peer} |->
                     IF q = peer THEN addrs ELSE passive_peers[q]]
  IN IF Cardinality(DOMAIN inserted) > config.max_passive
     THEN \E random \in DOMAIN inserted :
            passive_peers' = Without(inserted, random)
     ELSE passive_peers' = inserted

\* a handler that parks a gracefully disconnected peer in the passive view
\* whether or not it was in the active view
ParkWithoutActiveEntry(peer, gracefully) ==
  /\ active_peers' = Without(active_peers, peer)
  /\ IF gracefully
     THEN InsertPassive(peer, IF peer \in DOMAIN active_peers
                              THEN active_peers[peer] ELSE {})
     ELSE UNCHANGED passive_peers
  /\ cmds' = <<>>
  /\ UNCHANGED <<this_node, pending_dials, outmsgs, panicked>>

HandlePeerDisconnected(peer, gracefully) ==
  /\ IF peer \in DOMAIN active_peers
     THEN /\ active_peers' = Without(active_peers, peer)
          /\ IF gracefully THEN InsertPassive(peer, active_peers[peer])
             ELSE UNCHANGED passive_peers
     ELSE UNCHANGED <<active_peers, passive_peers>>
  /\ cmds' = <<>>
  /\ UNCHANGED <<this_node, pending_dials, outmsgs, panicked>>

\* a Join handler that takes the sender into the active view whatever its size
ConsumeJoinUnbounded(sender, msg) ==
  /\ active_peers' = [q \in DOMAIN active_peers \cup {sender} |->
                        IF q = sender THEN {} ELSE active_peers[q]]
  /\ cmds' = <<>>
  /\ UNCHANGED <<this_node, passive_peers, pending_dials, outmsgs, panicked>>

\* a Join handler that takes the sender into an unsaturated active view and
\* leaves the passive view as it is
ConsumeJoinKeepsPassive(sender, msg) ==
  /\ active_peers' =
       IF Cardinality(DOMAIN active_peers \cup {sender}) <= config.max_active
       THEN [q \in DOMAIN active_peers \cup {sender} |->
               IF q = sender THEN {} ELSE active_peers[q]]
       ELSE active_peers
  /\ cmds' = <<>>
  /\ UNCHANGED <<this_node, passive_peers, pending_dials, outmsgs, panicked>>

\* counts and logs only
ConsumeJoin(sender, msg) ==
  /\ cmds' = <<>>
  /\ UNCHANGED <<this_node, active_peers, passive_peers, pending_dials,
                 outmsgs, panicked>>

\* todo!()
ConsumeForwardJoin(sender, msg) ==
  /\ panicked' = TRUE
  /\ cmds' = <<>>
  /\ UNCHANGED <<this_node, active_peers, passive_peers, pending_dials,
                 outmsgs>>

ConsumeNeighbor(sender, msg) ==
  /\ panicked' = TRUE
  /\ cmds' = <<>>
  /\ UNCHANGED <<this_node, active_peers, passive_peers, pending_dials,
                 outmsgs>>

ConsumeDisconnect(sender, msg) ==
  /\ panicked' = TRUE
  /\ cmds' = <<>>
  /\ UNCHANGED <<this_node, active_peers, passive_peers, pending_dials,
                 outmsgs>>

ConsumeShuffle(sender, msg) ==
  /\ panicked' = TRUE
  /\ cmds' = <<>>
  /\ UNCHANGED <<this_node, active_peers, passive_peers, pending_dials,
                 outmsgs>>

ConsumeShuffleReply(sender, msg) ==
  /\ panicked' = TRUE
  /\ cmds' = <<>>
  /\ UNCHANGED <<this_node, active_peers, passive_peers, pending_dials,
                 outmsgs>>

\* self.outmsgs.send(msg)
ConsumeGossip(sender, msg) ==
  /\ outmsgs' = Append(outmsgs, msg.data)
  /\ cmds' = <<>>
  /\ UNCHANGED <<this_node, active_peers, passive_peers, pending_dials,
                 panicked>>

HandleMessageReceived(sender, msg) ==
  CASE msg.action = "Join" -> ConsumeJoin(sender, msg)
    [] msg.action = "ForwardJoin" -> ConsumeForwardJoin(sender, msg)
    [] msg.action = "Neighbor" -> ConsumeNeighbor(sender, msg)
    [] msg.action = "Shuffle" -> ConsumeShuffle(sender, msg)
    [] msg.action = "ShuffleReply" -> ConsumeShuffleReply(sender, msg)
    [] msg.action = "Disconnect" -> ConsumeDisconnect(sender, msg)
    [] msg.action = "Gossip" -> ConsumeGossip(sender, msg)

\* a publish that treats an empty active view as a failure
GossipFailsWhenEmpty(data) ==
  /\ \E id \in MessageId : \E order \in Orders(DOMAIN active_peers) :
       cmds' = [k \in DOMAIN order |->
                  SendMessage(order[k], id, "Gossip", data, {})]
  /\ panicked' = (DOMAIN active_peers = {})
  /\ UNCHANGED <<this_node, active_peers, passive_peers, pending_dials,
                 outmsgs>>

\* Topic::gossip: one SendMessage per key of active_peers, all with one id
TopicGossip(data) ==
  /\ \E id \in MessageId : \E order \in Orders(DOMAIN active_peers) :
       cmds' = [k \in DOMAIN order |->
                  SendMessage(order[k], id, "Gossip", data, {})]
  /\ UNCHANGED <<this_node, active_peers, passive_peers, pending_dials,
                 outmsgs, panicked>>

\* ------------------------------------------------------------------------
\* Topic: the calls the network layer and the application make.  A panic
\* ends the run.
\* ------------------------------------------------------------------------
LocalAddressDiscovered(addr) ==
  /\ ~panicked
  /\ event' = EventOf("LocalAddressDiscovered", 0, {addr}, FALSE, NoMsg)
  /\ HandleNewLocalAddress(addr)
  /\ UNCHANGED <<config, gossip_seen, schedVars>>

PeerConnected(peer, addrs) ==
  /\ ~panicked
  /\ event' = EventOf("PeerConnected", peer, addrs, FALSE, NoMsg)
  /\ HandlePeerConnected(peer, addrs)
  /\ UNCHANGED <<config, gossip_seen, schedVars>>

PeerDisconnected(peer, gracefully) ==
  /\ ~panicked
  /\ event' = EventOf("PeerDisconnected", peer, {}, gracefully, NoMsg)
  /\ HandlePeerDisconnected(peer, gracefully)
  /\ UNCHANGED <<config, gossip_seen, schedVars>>

MessageReceived(sender, msg) ==
  /\ ~panicked
  /\ msg.action = "Gossip" => Len(outmsgs) < MaxOut
  /\ event' = EventOf("MessageReceived", sender, {}, FALSE, msg)
  /\ gossip_seen' = IF msg.action = "Gossip"
                    THEN gossip_seen \cup {<<msg.id, msg.data>>}
                    ELSE gossip_seen
  /\ HandleMessageReceived(sender, msg)
  /\ UNCHANGED <<config, schedVars>>

Publish(data) ==
  /\ ~panicked
  /\ event' = EventOf("gossip", 0, {}, FALSE,
                      [id |-> 0, action |-> "Gossip", data |-> data])
  /\ TopicGossip(data)
  /\ UNCHANGED <<config, gossip_seen, schedVars>>

NextTopic ==
  \/ \E addr \in LocalAddrs : LocalAddressDiscovered(addr)
  \/ \E peer \in PeerId : \E addrs \in SUBSET Multiaddr :
       PeerConnected(peer, addrs)
  \/ \E peer \in PeerId : \E gracefully \in BOOLEAN :
       PeerDisconnected(peer, gracefully)
  \/ \E sender \in PeerId : \E msg \in Messages : MessageReceived(sender, msg)
  \/ \E data \in Bytes : Publish(data)

SpecTopic == InitTopic /\ [][NextTopic]_vars

\* ------------------------------------------------------------------------
\* Topic properties
\* ------------------------------------------------------------------------
Count(seq, x) == Cardinality({k \in DOMAIN seq : seq[k] = x})

\* C7: however often a Gossip message with one id and payload is received,
\* its payload reaches the subscriber stream once: each payload is delivered
\* as many times as there are distinct ids it was received under.
C7_GossipDeliveredOnce ==
  \A d \in Bytes :
    Count(outmsgs, d) = Cardinality({i \in MessageId : <<i, d>> \in gossip_seen})

C9_JoinAccepted ==
  [][(/\ event'.type = "MessageReceived"
      /\ event'.action = "Join"
      /\ Cardinality(DOMAIN active_peers) < config.max_active)
       => /\ event'.peer \in DOMAIN active_peers'
          /\ \E k \in DOMAIN cmds' :
               /\ cmds'[k].cmd = "SendMessage"
               /\ cmds'[k].action = "Neighbor"
               /\ cmds'[k].peer = event'.peer]_vars

C21_ConnectedAddressesLeavePending ==
  [][event'.type = "PeerConnected"
       => pending_dials' = pending_dials \ event'.addrs]_vars

IsJoinTo(c, peer) ==
  c.cmd = "SendMessage" /\ c.action = "Join" /\ c.peer = peer

C23_AtMostOneJoinPerConnect ==
  [][event'.type = "PeerConnected" =>
       Cardinality({k \in DOMAIN cmds' : IsJoinTo(cmds'[k], event'.peer)}) <= 1
    ]_vars

====
